---- MODULE Spec2Model ----
(***************************************************************************)
(* A model of the STV counting engine of stv.py: Ballot, the tie-break     *)
(* selector randomly_select_first, redistribute_ballots, elect_reject and  *)
(* the round loop and zombie loop of count_stv.                            *)
(*                                                                         *)
(* Python floats are modelled as exact rationals <<numerator,denominator>> *)
(* in lowest terms; rounding error of the float operations is not          *)
(* modelled.  Python's None is modelled by the empty tuple and a supplied  *)
(* list q by the one-element tuple <<q>>.  List indices are kept 0-based   *)
(* as in the source; the element at index i of s is s[i + 1].              *)
(***************************************************************************)
EXTENDS Integers, Sequences, FiniteSets, TLC

\* ------------------------------------------------------------------ bounds
MaxBallots == 2
MaxSeats == 2
MaxQuota == 1
MaxQueue == 1

\* The candidates that may be written on a ballot, and the candidates in the
\* order a constituency file lists them (it may list one nobody voted for).
BallotCands == {"A", "B", "C"}
CandOrder == <<"A", "B", "C", "D">>

\* --------------------------------------------------------------- rationals
Abs(n) == IF n < 0 THEN -n ELSE n

RECURSIVE GCD(_, _)
GCD(a, b) == IF b = 0 THEN a ELSE GCD(b, a % b)

Norm(n, d) ==
    LET g == GCD(Abs(n), Abs(d))
        s == IF d < 0 THEN -1 ELSE 1
    IN  <<(s * n) \div g, (s * d) \div g>>

R(n) == <<n, 1>>
RAdd(x, y) == Norm(x[1] * y[2] + y[1] * x[2], x[2] * y[2])
RSub(x, y) == Norm(x[1] * y[2] - y[1] * x[2], x[2] * y[2])
RMul(x, y) == Norm(x[1] * y[1], x[2] * y[2])
RDiv(x, y) == Norm(x[1] * y[2], x[2] * y[1])
RLt(x, y) == x[1] * y[2] < y[1] * x[2]
RLe(x, y) == x[1] * y[2] <= y[1] * x[2]
RIsZero(x) == x[1] = 0

\* int(x): truncation toward zero; math.ceil(x): least integer >= x.
IntTrunc(x) == IF x[1] >= 0 THEN x[1] \div x[2] ELSE -((-x[1]) \div x[2])
Ceil(x) == -((-x[1]) \div x[2])

\* ------------------------------------------------------- sequence helpers
Range(s) == {s[i] : i \in 1..Len(s)}

RECURSIVE Reverse(_)
Reverse(s) == IF s = <<>> THEN <<>> ELSE Append(Reverse(Tail(s)), Head(s))

\* A variant that drops the last item, whatever x is.
RemoveLast(s, x) == SubSeq(s, 1, Len(s) - 1)

RECURSIVE RemoveFirst(_, _)
RemoveFirst(s, x) ==
    IF s = <<>> THEN <<>>
    ELSE IF Head(s) = x THEN Tail(s)
    ELSE <<Head(s)>> \o RemoveFirst(Tail(s), x)

AppendNew(s, x) == IF x \in Range(s) THEN s ELSE Append(s, x)

RECURSIVE SumR(_, _)
SumR(f, S) ==
    IF S = {} THEN R(0)
    ELSE LET x == CHOOSE y \in S : TRUE IN RAdd(f[x], SumR(f, S \ {x}))

\* ------------------------------------------------------------------- state
VARIABLES
    ballots,                \* the input ballots: Ballot.candidates of each
    seats, droop, fractional, constituencies, quota_limit,
    tie_breaks,             \* the caller's rnd_gen argument, as supplied
    rnd_gen,                \* <<>> for None, <<queue>> for a supplied list
    current_preference,     \* Ballot.current_preference of each ballot
    value,                  \* Ballot._value of each ballot
    allocated, vote_count, candidates, elected, hopefuls, eliminated,
    rejected, constituencies_elected, threshold,
    current_round, num_elected, num_hopefuls,
    pc,                     \* "count", "returned", or how the call ended
    run,                    \* 1 for the first call of count_stv, 2 for a replay
    hist                    \* observations of the last loop iteration

inputs == <<ballots, seats, droop, fractional, constituencies, quota_limit,
            tie_breaks>>
ballot_state == <<current_preference, value>>
locals == <<allocated, vote_count, candidates, elected, hopefuls, eliminated,
            rejected, constituencies_elected, threshold,
            current_round, num_elected, num_hopefuls>>
vars == <<inputs, rnd_gen, ballot_state, locals, pc, run, hist>>

\* ------------------------------------------------------------------ Ballot
\* Ballot.add_weight: _value *= weight.  The weights list is a class
\* attribute shared by all ballots and is read by nothing in the count.
add_weight(val, b, weight) == [val EXCEPT ![b] = RMul(@, weight)]

get_value(val, b) == val[b]

\* ----------------------------------------------------- Threshold Calculator
\* A variant that rounds the non-droop quota down instead of up.
ThresholdFloorOnly(B, S, dr, fr) ==
    LET q == Norm(B, S + 1)
    IN  IF dr
        THEN IF ~fr THEN R(IntTrunc(RAdd(R(1), q))) ELSE q
        ELSE R(IntTrunc(RAdd(R(1), q)))

ComputeThreshold(B, S, dr, fr) ==
    LET q == Norm(B, S + 1)
    IN  IF dr
        THEN IF ~fr THEN R(IntTrunc(RAdd(R(1), q))) ELSE q
        ELSE R(Ceil(RAdd(R(1), q)))

\* ---------------------------------------------------- Tie-Break Selector
\* sorted(hopefuls, key=vote_count.get, reverse=True): a stable sort, so
\* candidates with equal counts keep their order in hopefuls.
RECURSIVE InsertDesc(_, _, _)
InsertDesc(s, x, vc) ==
    IF s = <<>> THEN <<x>>
    ELSE IF RLt(vc[Head(s)], vc[x]) THEN <<x>> \o s
    ELSE <<Head(s)>> \o InsertDesc(Tail(s), x, vc)

RECURSIVE SortedDesc(_, _)
SortedDesc(s, vc) ==
    IF s = <<>> THEN <<>>
    ELSE InsertDesc(SortedDesc(SubSeq(s, 1, Len(s) - 1), vc), s[Len(s)], vc)

\* The leading run of items whose key equals the key of the first item.
RECURSIVE LeadingRun(_, _, _)
LeadingRun(s, first_value, vc) ==
    IF s = <<>> \/ vc[Head(s)] # first_value THEN <<>>
    ELSE <<Head(s)>> \o LeadingRun(Tail(s), first_value, vc)

Collected(sequence, vc) == LeadingRun(sequence, vc[sequence[1]], vc)

\* A variant that falls back to a random pick when the queue is empty.
RandomFallback(sequence, vc, gen) ==
    LET collected == Collected(sequence, vc)
    IN  IF Len(collected) > 1
        THEN IF gen = <<>> \/ gen[1] = <<>>
             THEN {[selected |-> collected[i], rnd_gen |-> gen, exit |-> FALSE] :
                      i \in 1..Len(collected)}
             ELSE {[selected |-> Head(gen[1]), rnd_gen |-> <<Tail(gen[1])>>,
                    exit |-> FALSE]}
        ELSE {[selected |-> collected[1], rnd_gen |-> gen, exit |-> FALSE]}

\* A variant that takes the front of a supplied queue before it has looked
\* for a tie.
PopBeforeTieTest(sequence, vc, gen) ==
    LET collected == Collected(sequence, vc)
    IN  IF gen # <<>> /\ gen[1] # <<>>
        THEN {[selected |-> IF Len(collected) > 1
                            THEN Head(gen[1]) ELSE collected[1],
               rnd_gen |-> <<Tail(gen[1])>>, exit |-> FALSE]}
        ELSE IF Len(collected) > 1
        THEN IF gen = <<>>
             THEN {[selected |-> collected[i], rnd_gen |-> gen, exit |-> FALSE] :
                      i \in 1..Len(collected)}
             ELSE {[selected |-> collected[1], rnd_gen |-> gen, exit |-> TRUE]}
        ELSE {[selected |-> collected[1], rnd_gen |-> gen, exit |-> FALSE]}

\* The outcomes of randomly_select_first: the selected item, the queue as it
\* is left, and whether the call ended the process with sys.exit(1).
randomly_select_first(sequence, vc, gen) ==
    LET collected == Collected(sequence, vc)
    IN  IF Len(collected) > 1
        THEN IF gen = <<>>
             THEN {[selected |-> collected[i], rnd_gen |-> gen, exit |-> FALSE] :
                      i \in 1..Len(collected)}
             ELSE IF gen[1] = <<>>
                  THEN {[selected |-> collected[1], rnd_gen |-> gen, exit |-> TRUE]}
                  ELSE {[selected |-> Head(gen[1]), rnd_gen |-> <<Tail(gen[1])>>,
                         exit |-> FALSE]}
        ELSE {[selected |-> collected[1], rnd_gen |-> gen, exit |-> FALSE]}

\* -------------------------------------------------- Redistribution Engine
\* A variant of the scan that takes the ballot's next preference whether or
\* not that candidate is still hopeful.
NextPreference(b, i, hopes) == IF i >= Len(ballots[b]) THEN -1 ELSE i

\* The while loop of redistribute_ballots: the first index i >= start of
\* ballot b whose candidate is in hopefuls, or -1 when the scan runs off the
\* end of the ballot.
RECURSIVE NextHopeful(_, _, _)
NextHopeful(b, i, hopes) ==
    IF i >= Len(ballots[b]) THEN -1
    ELSE IF ballots[b][i + 1] \in Range(hopes) THEN i
    ELSE NextHopeful(b, i + 1, hopes)

\* A variant of the transfer that credits the recipient without debiting
\* the candidate the ballot comes from.
TransferNoDebit(b, i, selected, weight, st) ==
    LET recipient == ballots[b][i + 1]
        val == add_weight(st.value, b, weight)
        current_value == get_value(val, b)
    IN  [current_preference |-> [st.current_preference EXCEPT ![b] = i],
         value |-> val,
         allocated |-> [st.allocated EXCEPT ![recipient] = Append(@, b)],
         vote_count |-> [st.vote_count EXCEPT
                            ![recipient] = RAdd(@, current_value)],
         transferred |-> Append(st.transferred, b)]

\* A variant that moves the value the ballot had before the weight was
\* applied.
TransferOldValue(b, i, selected, weight, st) ==
    LET recipient == ballots[b][i + 1]
        val == add_weight(st.value, b, weight)
        current_value == get_value(st.value, b)
        vc1 == [st.vote_count EXCEPT ![recipient] = RAdd(@, current_value)]
        vc2 == [vc1 EXCEPT ![selected] = RSub(@, current_value)]
    IN  [current_preference |-> [st.current_preference EXCEPT ![b] = i],
         value |-> val,
         allocated |-> [st.allocated EXCEPT ![recipient] = Append(@, b)],
         vote_count |-> vc2,
         transferred |-> Append(st.transferred, b)]

\* Lines 119-136: ballot b moves to the candidate at index i.  st carries
\* the structures the loop updates in place and the transferred list.
Transfer(b, i, selected, weight, st) ==
    LET recipient == ballots[b][i + 1]
        val == add_weight(st.value, b, weight)
        current_value == get_value(val, b)
        vc1 == [st.vote_count EXCEPT ![recipient] = RAdd(@, current_value)]
        vc2 == [vc1 EXCEPT ![selected] = RSub(@, current_value)]
    IN  [current_preference |-> [st.current_preference EXCEPT ![b] = i],
         value |-> val,
         allocated |-> [st.allocated EXCEPT ![recipient] = Append(@, b)],
         vote_count |-> vc2,
         transferred |-> Append(st.transferred, b)]

\* The for loop over allocated[selected].
RECURSIVE RedistributeLoop(_, _, _, _, _)
RedistributeLoop(todo, selected, weight, hopes, st) ==
    IF todo = <<>> THEN st
    ELSE
        LET b == Head(todo)
            i == NextHopeful(b, st.current_preference[b] + 1, hopes)
        IN  RedistributeLoop(Tail(todo), selected, weight, hopes,
                IF i = -1 THEN st ELSE Transfer(b, i, selected, weight, st))

\* A variant that leaves the transferred ballots in the old bucket as well.
redistribute_keep(selected, weight, hopes, st) ==
    RedistributeLoop(st.allocated[selected], selected, weight, hopes,
                     [st EXCEPT !.transferred = <<>>])

\* A variant that offers the ballots to every candidate, hopeful or not.
redistribute_to_any(selected, weight, hopes, st) ==
    LET out == RedistributeLoop(st.allocated[selected], selected, weight,
                                candidates, [st EXCEPT !.transferred = <<>>])
    IN  [out EXCEPT !.allocated[selected] =
             SelectSeq(@, LAMBDA x : x \notin Range(out.transferred))]

redistribute_ballots(selected, weight, hopes, st) ==
    LET out == RedistributeLoop(st.allocated[selected], selected, weight, hopes,
                                [st EXCEPT !.transferred = <<>>])
    IN  [out EXCEPT !.allocated[selected] =
             SelectSeq(@, LAMBDA x : x \notin Range(out.transferred))]

\* -------------------------------------------- Election/Rejection Decider
\* A variant that rejects only once the counter is above the limit.
elect_reject_late(candidate, vc, cons, limit, round, el, rej, cons_el) ==
    LET quota_exceeded ==
            /\ limit > 0
            /\ candidate \in DOMAIN cons
            /\ cons_el[cons[candidate]] > limit
    IN  IF quota_exceeded
        THEN [was_elected |-> FALSE, raised |-> FALSE, elected |-> el,
              rejected |-> Append(rej, <<candidate, round, vc[candidate]>>),
              constituencies_elected |-> cons_el]
        ELSE
            LET el1 == Append(el, <<candidate, round, vc[candidate]>>)
            IN  IF DOMAIN cons # {}
                THEN IF candidate \in DOMAIN cons
                     THEN [was_elected |-> TRUE, raised |-> FALSE,
                           elected |-> el1, rejected |-> rej,
                           constituencies_elected |->
                               [cons_el EXCEPT ![cons[candidate]] = @ + 1]]
                     ELSE [was_elected |-> FALSE, raised |-> TRUE,
                           elected |-> el1, rejected |-> rej,
                           constituencies_elected |-> cons_el]
                ELSE [was_elected |-> TRUE, raised |-> FALSE,
                      elected |-> el1, rejected |-> rej,
                      constituencies_elected |-> cons_el]

\* The result of elect_reject: the lists and the counter map as it leaves
\* them, its return value, and whether it raised KeyError at line 182.
elect_reject(candidate, vc, cons, limit, round, el, rej, cons_el) ==
    LET quota_exceeded ==
            /\ limit > 0
            /\ candidate \in DOMAIN cons
            /\ cons_el[cons[candidate]] >= limit
    IN  IF quota_exceeded
        THEN [was_elected |-> FALSE, raised |-> FALSE, elected |-> el,
              rejected |-> Append(rej, <<candidate, round, vc[candidate]>>),
              constituencies_elected |-> cons_el]
        ELSE
            LET el1 == Append(el, <<candidate, round, vc[candidate]>>)
            IN  IF DOMAIN cons # {}
                THEN IF candidate \in DOMAIN cons
                     THEN [was_elected |-> TRUE, raised |-> FALSE,
                           elected |-> el1, rejected |-> rej,
                           constituencies_elected |->
                               [cons_el EXCEPT ![cons[candidate]] = @ + 1]]
                     ELSE [was_elected |-> FALSE, raised |-> TRUE,
                           elected |-> el1, rejected |-> rej,
                           constituencies_elected |-> cons_el]
                ELSE [was_elected |-> TRUE, raised |-> FALSE,
                      elected |-> el1, rejected |-> rej,
                      constituencies_elected |-> cons_el]

\* ------------------------------------------- count_stv: set-up (216-266)
\* The candidates in the order count_stv first meets them: the keys of
\* constituencies, then the candidates of each ballot in turn.
ConstituencyKeys(cons) ==
    SelectSeq(CandOrder, LAMBDA c : c \in DOMAIN cons)

RECURSIVE AppendAllNew(_, _)
AppendAllNew(s, t) ==
    IF t = <<>> THEN s ELSE AppendAllNew(AppendNew(s, Head(t)), Tail(t))

RECURSIVE BallotCandidates(_, _, _)
BallotCandidates(s, bs, k) ==
    IF k > Len(bs) THEN s
    ELSE BallotCandidates(AppendAllNew(s, bs[k]), bs, k + 1)

InitialCandidates(bs, cons) == BallotCandidates(ConstituencyKeys(cons), bs, 1)

InitialAllocated(bs, cons) ==
    [c \in Range(InitialCandidates(bs, cons)) |->
        SelectSeq([k \in 1..Len(bs) |-> k], LAMBDA k : bs[k][1] = c)]

InitialVoteCount(bs, cons) ==
    [c \in Range(InitialCandidates(bs, cons)) |->
        R(Cardinality({k \in 1..Len(bs) : bs[k][1] = c}))]

\* ------------------------------------------------------------------ inputs
CandIndex(c) == CHOOSE i \in 1..Len(CandOrder) : CandOrder[i] = c

\* Preference lists: non-empty, no candidate twice, the candidates ranked in
\* the order of the ballot paper (any of them may be left out).
Prefs ==
    {p \in UNION {[1..n -> BallotCands] : n \in 1..Cardinality(BallotCands)} :
        \A i, j \in 1..Len(p) : i < j => CandIndex(p[i]) < CandIndex(p[j])}

RECURSIVE PrefCode(_)
PrefCode(p) ==
    IF p = <<>> THEN 0 ELSE CandIndex(Head(p)) + 8 * PrefCode(Tail(p))

\* Ballot files up to the order of their rows: rows in non-decreasing code.
BallotSets ==
    {bs \in UNION {[1..n -> Prefs] : n \in 0..MaxBallots} :
        \A k \in 1..(Len(bs) - 1) : PrefCode(bs[k]) <= PrefCode(bs[k + 1])}

\* Constituency files: row g lists the candidates of group g.  Row 0 lists
\* A and B and every later row one candidate; a file covers the first k
\* candidates of CandOrder, for k = 0 (no constituencies), 2, 3 or 4.
GroupOf(c) == IF c \in {"A", "B"} THEN 0 ELSE CandIndex(c) - 2

ConstituencyMaps ==
    {[c \in {CandOrder[i] : i \in 1..k} |-> GroupOf(c)] : k \in {0, 2, 3, 4}}

Queues == UNION {[1..n -> BallotCands] : n \in 0..MaxQueue}

TieBreakArgs == {<<>>} \cup {<<q>> : q \in Queues}

Groups(cons) == {cons[c] : c \in DOMAIN cons}

NoHist ==
    [path |-> "none", selected |-> "", tied |-> FALSE,
     hopefuls |-> <<>>, vote_count |-> <<>>, elected |-> <<>>,
     rejected |-> <<>>, eliminated |-> <<>>, rnd_gen |-> <<>>,
     constituencies_elected |-> <<>>, current_round |-> 0,
     elim_log |-> <<>>, zombie_log |-> <<>>,
     first_result |-> <<>>, reused |-> FALSE,
     allocated |-> <<>>, current_preference |-> <<>>, value |-> <<>>,
     passes |-> 0, weight |-> <<>>]

\* The state of count_stv when it reaches line 268 for the first time.
Entry(bs, cons) ==
    /\ allocated = InitialAllocated(bs, cons)
    /\ vote_count = InitialVoteCount(bs, cons)
    /\ candidates = InitialCandidates(bs, cons)
    /\ hopefuls = InitialCandidates(bs, cons)
    /\ elected = <<>>
    /\ eliminated = <<>>
    /\ rejected = <<>>
    /\ constituencies_elected = [g \in Groups(cons) |-> 0]
    /\ current_round = 1
    /\ num_elected = 0
    /\ num_hopefuls = Len(InitialCandidates(bs, cons))

Init ==
    /\ ballots \in BallotSets
    /\ constituencies \in ConstituencyMaps
    /\ current_preference = [b \in 1..Len(ballots) |-> 0]
    /\ value = [b \in 1..Len(ballots) |-> R(1)]
    /\ Entry(ballots, constituencies)
    /\ seats \in 1..MaxSeats
    /\ droop \in BOOLEAN
    /\ fractional \in BOOLEAN
    /\ fractional => droop
    /\ threshold = ComputeThreshold(Len(ballots), seats, droop, fractional)
    /\ quota_limit \in 0..MaxQuota
    /\ tie_breaks \in TieBreakArgs
    /\ rnd_gen = tie_breaks
    /\ pc = "count"
    /\ run = 1
    /\ hist = NoHist

\* ------------------------------------------------ count_stv: round loop
Store == [allocated |-> allocated, vote_count |-> vote_count,
          current_preference |-> current_preference, value |-> value,
          transferred |-> <<>>]

RoundGuard == pc = "count" /\ num_elected < seats /\ num_hopefuls > 0

ZombieGuard == (seats - num_elected) > 0 /\ Len(eliminated) > 0

HopefulsSorted == SortedDesc(hopefuls, vote_count)

Surplus == RSub(vote_count[HopefulsSorted[1]], threshold)

\* A variant of the condition without the test for the seats being as many
\* as the hopefuls.
ConditionNoShortfall ==
    \/ fractional /\ RLt(R(0), Surplus)
    \/ ~fractional /\ RLe(R(0), Surplus)

\* The condition of line 284.
ElectionCondition ==
    \/ fractional /\ RLt(R(0), Surplus)
    \/ ~fractional /\ RLe(R(0), Surplus)
    \/ num_hopefuls <= (seats - num_elected)

\* What an iteration leaves for the claims to read: the path it took, the
\* candidate it selected and the state it started from.
Observe(path, r, sequence) ==
    [hist EXCEPT !.path = path, !.selected = r.selected,
                 !.tied = Len(Collected(sequence, vote_count)) > 1,
                 !.hopefuls = hopefuls, !.vote_count = vote_count,
                 !.elected = elected, !.rejected = rejected,
                 !.eliminated = eliminated, !.rnd_gen = rnd_gen,
                 !.constituencies_elected = constituencies_elected,
                 !.current_round = current_round,
                 !.allocated = allocated,
                 !.current_preference = current_preference,
                 !.value = value,
                 !.passes = 0, !.weight = <<>>]

SetStore(st) ==
    /\ allocated' = st.allocated
    /\ vote_count' = st.vote_count
    /\ current_preference' = st.current_preference
    /\ value' = st.value

\* A variant of the end of an iteration that leaves the round counter alone.
EndSameRound ==
    /\ current_round' = current_round
    /\ num_hopefuls' = Len(hopefuls')
    /\ num_elected' = Len(elected')

EndOfIteration ==
    /\ current_round' = current_round + 1
    /\ num_hopefuls' = Len(hopefuls')
    /\ num_elected' = Len(elected')

\* Lines 293-297: the decision on the candidate taken from hopefuls.
Decision(c) ==
    elect_reject(c, vote_count, constituencies, quota_limit, current_round,
                 elected, rejected, constituencies_elected)

\* Lines 298-300: the structures after the weight-1.0 pass of a rejection.
AfterDecision(c) ==
    IF ~Decision(c).was_elected
    THEN redistribute_ballots(c, R(1), RemoveFirst(hopefuls, c), Store)
    ELSE Store

\* Line 303.
Weight(c) == RDiv(Surplus, AfterDecision(c).vote_count[c])

\* Lines 285-308 for one outcome r of the tie-break selector.
ElectionPath(r) ==
    IF r.exit \/ r.selected \notin Range(hopefuls)
    THEN \* sys.exit(1) at line 86 or at line 291
         /\ pc' = "SystemExit"
         /\ rnd_gen' = r.rnd_gen
         /\ UNCHANGED <<ballot_state, locals>>
    ELSE
        LET best_candidate == r.selected
            hopes == RemoveFirst(hopefuls, best_candidate)
            d == Decision(best_candidate)
            st1 == AfterDecision(best_candidate)
            weight == Weight(best_candidate)
        IN  /\ rnd_gen' = r.rnd_gen
            /\ hopefuls' = hopes
            /\ elected' = d.elected
            /\ rejected' = d.rejected
            /\ constituencies_elected' = d.constituencies_elected
            /\ UNCHANGED <<candidates, eliminated, threshold>>
            /\ IF d.raised
               THEN /\ pc' = "KeyError"
                    /\ UNCHANGED <<ballot_state, allocated, vote_count,
                                   current_round, num_elected, num_hopefuls>>
               ELSE IF RLt(R(0), Surplus)
                    THEN IF RIsZero(st1.vote_count[best_candidate])
                         THEN /\ pc' = "ZeroDivisionError"
                              /\ SetStore(st1)
                              /\ UNCHANGED <<current_round, num_elected,
                                             num_hopefuls>>
                         ELSE /\ pc' = pc
                              /\ SetStore(redistribute_ballots(
                                     best_candidate, weight, hopes, st1))
                              /\ EndOfIteration
                    ELSE /\ pc' = pc
                         /\ SetStore(st1)
                         /\ EndOfIteration

ElectionRound ==
    /\ RoundGuard
    /\ ElectionCondition
    /\ \E r \in randomly_select_first(HopefulsSorted, vote_count, rnd_gen) :
          /\ ElectionPath(r)
          /\ hist' = [Observe("elect", r, HopefulsSorted)
                         EXCEPT !.passes =
                                    (IF Len(rejected') > Len(rejected)
                                     THEN 1 ELSE 0)
                                    + (IF pc' = "count" /\ RLt(R(0), Surplus)
                                       THEN 1 ELSE 0),
                                !.weight =
                                    IF pc' = "count" /\ RLt(R(0), Surplus)
                                    THEN <<Weight(r.selected)>> ELSE <<>>]
    /\ UNCHANGED <<inputs, run>>

\* Lines 313-324 for one outcome r of the tie-break selector.
EliminationPath(r) ==
    IF r.exit
    THEN /\ pc' = "SystemExit"
         /\ rnd_gen' = r.rnd_gen
         /\ UNCHANGED <<ballot_state, locals>>
    ELSE IF r.selected \notin Range(hopefuls)
    THEN \* list.remove raises ValueError at line 318
         /\ pc' = "ValueError"
         /\ rnd_gen' = r.rnd_gen
         /\ UNCHANGED <<ballot_state, locals>>
    ELSE
        LET worst_candidate == r.selected
            hopes == RemoveFirst(hopefuls, worst_candidate)
        IN  /\ pc' = pc
            /\ rnd_gen' = r.rnd_gen
            /\ hopefuls' = hopes
            /\ eliminated' = Append(eliminated, worst_candidate)
            /\ SetStore(redistribute_ballots(worst_candidate, R(1), hopes,
                                             Store))
            /\ UNCHANGED <<candidates, elected, rejected,
                           constituencies_elected, threshold>>
            /\ EndOfIteration

EliminationRound ==
    /\ RoundGuard
    /\ ~ElectionCondition
    /\ \E r \in randomly_select_first(Reverse(HopefulsSorted), vote_count,
                                      rnd_gen) :
          /\ EliminationPath(r)
          /\ hist' = [Observe("eliminate", r, Reverse(HopefulsSorted))
                         EXCEPT !.elim_log =
                             IF pc' = "count"
                             THEN Append(@, <<r.selected, current_round,
                                              vote_count'[r.selected]>>)
                             ELSE @,
                                !.passes = IF pc' = "count" THEN 1 ELSE 0]
    /\ UNCHANGED <<inputs, run>>

\* ----------------------------------------------- count_stv: zombie loop
\* A variant that takes the earliest eliminated candidate.
pop_first(elim) == [item |-> Head(elim), rest |-> Tail(elim)]

\* eliminated.pop() at line 340.
pop(elim) == [item |-> elim[Len(elim)], rest |-> SubSeq(elim, 1, Len(elim) - 1)]

ZombieRound ==
    /\ pc = "count"
    /\ ~(num_elected < seats /\ num_hopefuls > 0)
    /\ ZombieGuard
    /\ LET best_candidate == pop(eliminated).item
           d == elect_reject(best_candidate, vote_count, constituencies,
                             quota_limit, current_round, elected, rejected,
                             constituencies_elected)
       IN  /\ eliminated' = pop(eliminated).rest
           /\ elected' = d.elected
           /\ rejected' = d.rejected
           /\ constituencies_elected' = d.constituencies_elected
           /\ IF d.raised
              THEN pc' = "KeyError" /\ current_round' = current_round
              ELSE pc' = pc /\ current_round' = current_round + 1
           /\ hist' = [Observe("zombie", [selected |-> best_candidate],
                               eliminated)
                          EXCEPT !.tied = FALSE,
                                 !.zombie_log =
                                     Append(@, <<best_candidate, current_round,
                                                 vote_count[best_candidate]>>)]
    /\ UNCHANGED <<inputs, rnd_gen, ballot_state, allocated, vote_count,
                   candidates, hopefuls, threshold, num_elected, num_hopefuls,
                   run>>

\* Line 346.
Return ==
    /\ pc = "count"
    /\ ~(num_elected < seats /\ num_hopefuls > 0)
    /\ ~ZombieGuard
    /\ pc' = "returned"
    /\ UNCHANGED <<inputs, rnd_gen, ballot_state, locals, run, hist>>

Next == ElectionRound \/ EliminationRound \/ ZombieRound \/ Return

Spec == Init /\ [][Next]_vars

\* ------------------------------------------------ a second call (replay)
\* The caller, having supplied a tie-break sequence, calls count_stv again
\* with the same ballots, constituencies and parameters and an equal
\* sequence.  It either passes the Ballot objects of the first call again or
\* builds equal new ones; count_stv builds every other structure afresh
\* (lines 216-266).
Rerun ==
    /\ pc = "returned"
    /\ run = 1
    /\ tie_breaks # <<>>
    /\ run' = 2
    /\ pc' = "count"
    /\ rnd_gen' = tie_breaks
    /\ \E reuse \in BOOLEAN :
          /\ IF reuse
             THEN UNCHANGED ballot_state
             ELSE /\ current_preference' = [b \in 1..Len(ballots) |-> 0]
                  /\ value' = [b \in 1..Len(ballots) |-> R(1)]
          /\ hist' = [NoHist EXCEPT !.first_result = <<elected, vote_count>>,
                                    !.reused = reuse]
    /\ allocated' = InitialAllocated(ballots, constituencies)
    /\ vote_count' = InitialVoteCount(ballots, constituencies)
    /\ candidates' = InitialCandidates(ballots, constituencies)
    /\ hopefuls' = InitialCandidates(ballots, constituencies)
    /\ elected' = <<>>
    /\ eliminated' = <<>>
    /\ rejected' = <<>>
    /\ constituencies_elected' = [g \in Groups(constituencies) |-> 0]
    /\ threshold' = ComputeThreshold(Len(ballots), seats, droop, fractional)
    /\ current_round' = 1
    /\ num_elected' = 0
    /\ num_hopefuls' = Len(InitialCandidates(ballots, constituencies))
    /\ UNCHANGED inputs

NextReplay == Next \/ Rerun

SpecReplay == Init /\ [][NextReplay]_vars

\* A larger election: WideBallots ballots for WideSeats seats, the size at
\* which two candidates can tie at the top while a third, with fewer votes,
\* is still over the threshold.  The other arguments range as in Init.
WideBallots == 5

WideSeats == 5

WideBallotSets ==
    {bs \in [1..WideBallots -> Prefs] :
        \A k \in 1..(Len(bs) - 1) : PrefCode(bs[k]) <= PrefCode(bs[k + 1])}

InitWide ==
    /\ ballots \in WideBallotSets
    /\ constituencies \in ConstituencyMaps
    /\ current_preference = [b \in 1..Len(ballots) |-> 0]
    /\ value = [b \in 1..Len(ballots) |-> R(1)]
    /\ Entry(ballots, constituencies)
    /\ seats = WideSeats
    /\ droop \in BOOLEAN
    /\ fractional \in BOOLEAN
    /\ fractional => droop
    /\ threshold = ComputeThreshold(Len(ballots), seats, droop, fractional)
    /\ quota_limit \in 0..MaxQuota
    /\ tie_breaks \in TieBreakArgs
    /\ rnd_gen = tie_breaks
    /\ pc = "count"
    /\ run = 1
    /\ hist = NoHist

SpecWide == (Init \/ InitWide) /\ [][Next]_vars

\* ================================================================== claims
\* Helpers that read the observations of the last iteration.
Before(c) == hist.vote_count[c]

HopefulsBefore == Range(hist.hopefuls)

UnfilledBefore == seats - Len(hist.elected)

IsTop(c) == c \in HopefulsBefore /\ \A d \in HopefulsBefore : RLe(Before(d), Before(c))

IsBottom(c) == c \in HopefulsBefore /\ \A d \in HopefulsBefore : RLe(Before(c), Before(d))

\* The iteration ended at line 86: a tie with a supplied but empty queue.
QueueEmptyAtTie ==
    /\ hist.rnd_gen = << <<>> >>
    /\ \/ hist.path = "elect" /\ Cardinality({c \in HopefulsBefore : IsTop(c)}) > 1
       \/ hist.path = "eliminate"
          /\ Cardinality({c \in HopefulsBefore : IsBottom(c)}) > 1

\* The tie-break selector returned a candidate to the round.
SelectorReturned ==
    /\ hist.path \in {"elect", "eliminate"}
    /\ ~(pc = "SystemExit" /\ hist.rnd_gen = << <<>> >>)

\* elect_reject was called in the last iteration.
DeciderCalled ==
    \/ hist.path = "zombie"
    \/ hist.path = "elect" /\ pc # "SystemExit"

ElectedIn(g) ==
    Cardinality({i \in 1..Len(elected) :
                    /\ elected[i][1] \in DOMAIN constituencies
                    /\ constituencies[elected[i][1]] = g})

LogCands(log) == [i \in 1..Len(log) |-> log[i][1]]

\* C1: the elected list returned by count_stv never has more than seats
\* entries.
C1_ElectedWithinSeats == pc = "returned" => Len(elected) <= seats

\* C2: with quota_limit > 0, in every state of the round phase and of the
\* zombie phase no constituency has more than quota_limit elected candidates,
\* and constituencies_elected[g] is the number of elected candidates mapped
\* to g.
C2_QuotaRespected ==
    quota_limit > 0 =>
        \A g \in Groups(constituencies) :
            /\ ElectedIn(g) <= quota_limit
            /\ constituencies_elected[g] = ElectedIn(g)

C2_Witness ==
    /\ quota_limit > 0
    /\ rejected # <<>>
    /\ hist.zombie_log # <<>>
    /\ \E g \in Groups(constituencies) : ElectedIn(g) = quota_limit

\* C3: at every round boundary and at return, the vote counts of all
\* candidates (frozen ones included) add up to the number of input ballots.
C3_Conservation ==
    pc \in {"count", "returned"} =>
        SumR(vote_count, DOMAIN vote_count) = R(Len(ballots))

C3_Witness ==
    /\ pc = "returned"
    /\ elected # <<>>
    /\ rejected # <<>>
    /\ hist.elim_log # <<>>
    /\ \E b \in 1..Len(ballots) : value[b] # R(1) /\ current_preference[b] > 0

\* C4: a candidate that is not listed in a non-empty constituency mapping is
\* elected by elect_reject without error, and no constituency counter
\* changes.
C4_UnlistedElected ==
    (/\ DeciderCalled
     /\ DOMAIN constituencies # {}
     /\ hist.selected \notin DOMAIN constituencies)
    => /\ pc # "KeyError"
       /\ elected = Append(hist.elected, <<hist.selected, hist.current_round,
                                           Before(hist.selected)>>)
       /\ constituencies_elected = hist.constituencies_elected

\* C5: the candidate the tie-break selector returns on the election path has
\* the maximum count among the hopefuls, and the one it returns on the
\* elimination path has the minimum count, whichever tie-break source is used.
C5_SelectedIsExtremal ==
    SelectorReturned =>
        /\ hist.path = "elect" => IsTop(hist.selected)
        /\ hist.path = "eliminate" => IsBottom(hist.selected)

\* C6: a second call of count_stv on the same ballots, constituencies and
\* parameters with an equal deterministic tie-break sequence returns the same
\* elected list and the same vote counts as the first call.
C6_ReplayIdentical ==
    (run = 2 /\ pc = "returned" /\ tie_breaks # <<>>) =>
        <<elected, vote_count>> = hist.first_result

\* C7: when a supplied tie-break queue is empty in a round with a tie on the
\* extremal count, the count aborts in that round: nobody is elected,
\* rejected or eliminated, nothing is returned, no random pick is made.
C7_TieBreakExhausted ==
    QueueEmptyAtTie =>
        /\ pc = "SystemExit"
        /\ elected = hist.elected
        /\ rejected = hist.rejected
        /\ eliminated = hist.eliminated
        /\ hopefuls = hist.hopefuls
        /\ vote_count = hist.vote_count

C7_Witness == QueueEmptyAtTie /\ pc = "SystemExit" /\ current_round > 1

\* C8: the quota is floor(1 + B/(S+1)) in droop integer mode, B/(S+1) in
\* droop fractional mode and ceil(1 + B/(S+1)) in non-droop mode (21, 20 and
\* 21 for B = 100, S = 4), and it has that value in every round.
C8_Quota ==
    LET B == Len(ballots)
        S == seats
        n == threshold[1]
    IN  /\ droop /\ ~fractional =>
              /\ threshold[2] = 1
              /\ n * (S + 1) <= (S + 1) + B
              /\ (S + 1) + B < (n + 1) * (S + 1)
        /\ droop /\ fractional => threshold[1] * (S + 1) = B * threshold[2]
        /\ ~droop =>
              /\ threshold[2] = 1
              /\ (n - 1) * (S + 1) < (S + 1) + B
              /\ (S + 1) + B <= n * (S + 1)
        /\ ComputeThreshold(100, 4, TRUE, FALSE) = R(21)
        /\ ComputeThreshold(100, 4, TRUE, TRUE) = R(20)
        /\ ComputeThreshold(100, 4, FALSE, FALSE) = R(21)

C8_Witness ==
    /\ ~droop
    /\ Len(ballots) % (seats + 1) # 0
    /\ current_round >= 3

\* C9: the zombie phase puts the eliminated candidates to the Decider in
\* reverse order of elimination, one per round number, each with the count
\* it was left with when eliminated; a candidate is never decided twice.
C9_ZombieOrder ==
    LET z == hist.zombie_log
        e == hist.elim_log
        decided == elected \o rejected
    IN  /\ LogCands(e) = eliminated \o Reverse(LogCands(z))
        /\ \A i \in 1..Len(z) : z[i][2] = z[1][2] + (i - 1)
        /\ \A i \in 1..Len(z) :
              \E j \in 1..Len(e) :
                  /\ e[j][1] = z[i][1]
                  /\ <<z[i][1], z[i][2], e[j][3]>> \in Range(decided)
        /\ \A i, j \in 1..Len(decided) :
              i # j => decided[i][1] # decided[j][1]

C9_Witness ==
    /\ Len(hist.zombie_log) >= 2
    /\ rejected # <<>>
    /\ \E i \in 1..Len(hist.zombie_log) : hist.zombie_log[i][3] # R(0)

\* C10: a round takes the election path exactly when (fractional and top
\* count > threshold) or (not fractional and top count >= threshold) or
\* (hopefuls <= unfilled seats); so nobody is eliminated in a round with
\* hopefuls <= unfilled seats, and a candidate below the threshold is put to
\* the Decider only in such a round.
C10_PathChoice ==
    hist.path \in {"elect", "eliminate"} =>
        LET h == Len(hist.hopefuls)
            top == CHOOSE c \in HopefulsBefore : IsTop(c)
            condition ==
                \/ fractional /\ RLt(threshold, Before(top))
                \/ ~fractional /\ RLe(threshold, Before(top))
                \/ h <= UnfilledBefore
        IN  /\ hist.path = "elect" <=> condition
            /\ hist.path = "eliminate" => h > UnfilledBefore
            /\ (/\ hist.path = "elect"
                /\ pc # "SystemExit"
                /\ RLt(Before(hist.selected), threshold))
               => h <= UnfilledBefore

\* The top count of the last iteration's hopefuls less the threshold
\* (line 281 evaluated on the state before the iteration).
TopBefore == CHOOSE c \in HopefulsBefore : IsTop(c)

SurplusBefore == RSub(Before(TopBefore), threshold)

\* The last iteration took the election path, the Decider returned, and the
\* surplus was positive: line 303 was executed.
WeightComputed ==
    /\ hist.path = "elect"
    /\ pc \in {"count", "ZeroDivisionError"}
    /\ RLt(R(0), SurplusBefore)

\* C11: every surplus weight, for a candidate elected or rejected by quota, is
\* the surplus divided by the count the candidate had when it was selected,
\* before any redistribution of that round; the divisor is never zero, the
\* weight is greater than 0 and at most 1, and a rejected candidate over the
\* threshold passes through both redistributions without the count aborting.
C11_SurplusWeight ==
    WeightComputed =>
        /\ pc # "ZeroDivisionError"
        /\ ~RIsZero(Before(hist.selected))
        /\ hist.weight = <<RDiv(SurplusBefore, Before(hist.selected))>>
        /\ RLt(R(0), hist.weight[1])
        /\ RLe(hist.weight[1], R(1))

\* The ballots that left the bucket of candidate c in the last iteration, and
\* those that stayed in it.
Moved(c) == Range(hist.allocated[c]) \ Range(allocated[c])

Stayed(c) == Range(hist.allocated[c]) \cap Range(allocated[c])

\* The last iteration elected a candidate whose count was over the threshold.
ElectedOverThreshold ==
    /\ hist.path = "elect"
    /\ pc = "count"
    /\ Len(elected) > Len(hist.elected)
    /\ RLt(threshold, Before(hist.selected))

\* C12: when a candidate X with count c greater than the threshold t is
\* elected, every ballot transferred from X in the surplus redistribution has
\* its value multiplied by exactly (c - t) / c; the recipient's count rises by
\* the new value and X's count falls by the same amount; ballots of X with no
\* hopeful later preference keep their value.
C12_SurplusTransfer ==
    ElectedOverThreshold =>
        LET X == hist.selected
            c == Before(X)
            w == RDiv(RSub(c, threshold), c)
        IN  /\ \A b \in Moved(X) : value[b] = RMul(hist.value[b], w)
            /\ \A b \in Stayed(X) : value[b] = hist.value[b]
            /\ \A r \in DOMAIN vote_count \ {X} :
                  vote_count[r] =
                      RAdd(Before(r),
                           SumR(value, Moved(X) \cap Range(allocated[r])))
            /\ vote_count[X] = RSub(c, SumR(value, Moved(X)))

\* The first index after k of ballot b whose candidate is in H, or -1.
FirstAfter(b, k, H) ==
    LET J == {j \in (k + 1)..(Len(ballots[b]) - 1) : ballots[b][j + 1] \in H}
    IN  IF J = {} THEN -1 ELSE CHOOSE j \in J : \A i \in J : j <= i

\* C13: a redistribution moves each ballot of the from-candidate to the first
\* candidate after the ballot's current-preference index who is hopeful at that
\* moment and sets the index to that position, so the index never decreases
\* and never skips a hopeful preference; a ballot with no such candidate stays
\* in the from-candidate's bucket with index and value unchanged and is still
\* counted in that candidate's total.
C13_Redistribution ==
    hist.passes > 0 =>
        LET X == hist.selected
            H == Range(hopefuls)
        IN  /\ \A b \in Range(hist.allocated[X]) :
                  LET k == hist.current_preference[b]
                      j == FirstAfter(b, k, H)
                  IN  IF j # -1
                      THEN /\ current_preference[b] = j
                           /\ b \in Range(allocated[ballots[b][j + 1]])
                           /\ b \notin Range(allocated[X])
                      ELSE /\ current_preference[b] = k
                           /\ value[b] = hist.value[b]
                           /\ b \in Range(allocated[X])
            /\ vote_count[X] = RSub(Before(X), SumR(value, Moved(X)))
            /\ \A b \in 1..Len(ballots) :
                  current_preference[b] >= hist.current_preference[b]

\* A ballot moved past a preference that was no longer hopeful.
C13_Witness ==
    /\ hist.passes > 0
    /\ \E b \in Moved(hist.selected) :
          current_preference[b] > hist.current_preference[b] + 1

\* C14: once a candidate has left the hopefuls, from the end of that round on
\* no later round modifies its vote_count, and the zombie phase changes no
\* vote count at all; only candidates that are hopeful can gain votes.
C14_FrozenCounts ==
    hist.path # "none" =>
        /\ \A c \in DOMAIN vote_count :
              /\ c \notin HopefulsBefore => vote_count[c] = Before(c)
              /\ RLt(Before(c), vote_count[c]) => c \in Range(hopefuls)
        /\ hist.path = "zombie" => vote_count = hist.vote_count

\* A ballot moved past a candidate that had left the hopefuls with votes.
C14_Witness ==
    /\ hist.path \in {"elect", "eliminate"}
    /\ \E c \in DOMAIN vote_count \ HopefulsBefore :
          /\ ~RIsZero(vote_count[c])
          /\ \E b \in Moved(hist.selected) :
                \E j \in (hist.current_preference[b] + 1)
                            ..(current_preference[b] - 1) :
                    ballots[b][j + 1] = c

IsPrefix(s, u) == Len(s) <= Len(u) /\ SubSeq(u, 1, Len(s)) = s

\* The number of places candidate c takes in the four lists.
Places(c) ==
    Cardinality({i \in 1..Len(hopefuls) : hopefuls[i] = c})
    + Cardinality({i \in 1..Len(elected) : elected[i][1] = c})
    + Cardinality({i \in 1..Len(rejected) : rejected[i][1] = c})
    + Cardinality({i \in 1..Len(eliminated) : eliminated[i] = c})

\* C15: at every round boundary each candidate is in exactly one of hopefuls,
\* elected, rejected and eliminated.  A candidate moves only from hopefuls to
\* elected, rejected or eliminated (counting rounds) and from eliminated to
\* elected or rejected (zombie phase), never back into hopefuls, and never
\* appears twice in elected.
C15_Partition ==
    pc \in {"count", "returned"} =>
        /\ \A c \in Range(candidates) : Places(c) = 1
        /\ Len(hopefuls) + Len(elected) + Len(rejected) + Len(eliminated)
               = Len(candidates)
        /\ hist.path # "none" =>
              /\ Range(hopefuls) \subseteq HopefulsBefore
              /\ IsPrefix(hist.elected, elected)
              /\ IsPrefix(hist.rejected, rejected)
              /\ hist.path \in {"elect", "eliminate"} =>
                     IsPrefix(hist.eliminated, eliminated)
              /\ hist.path = "zombie" =>
                     /\ hopefuls = hist.hopefuls
                     /\ IsPrefix(eliminated, hist.eliminated)

\* Between two zombie iterations, with all four lists occupied or used.
C15_Witness ==
    /\ pc = "count"
    /\ hist.path = "zombie"
    /\ eliminated # <<>>
    /\ elected # <<>>
    /\ rejected # <<>>

\* The places <<candidate, position>> of the buckets that hold ballot b.
BucketPlaces(b) ==
    {p \in UNION {{c} \X (1..Len(allocated[c])) : c \in DOMAIN allocated} :
        allocated[p[1]][p[2]] = b}

\* C16: at every round boundary every input ballot is in exactly one bucket,
\* the bucket of the candidate at the ballot's current-preference index.
C16_OneBucket ==
    pc \in {"count", "returned"} =>
        \A b \in 1..Len(ballots) :
            /\ Cardinality(BucketPlaces(b)) = 1
            /\ \A p \in BucketPlaces(b) :
                  p[1] = ballots[b][current_preference[b] + 1]

\* One ballot has moved on and one is held by a candidate no longer hopeful.
C16_Witness ==
    /\ pc = "count"
    /\ \E b \in 1..Len(ballots) : current_preference[b] > 0
    /\ \E b \in 1..Len(ballots) :
          /\ current_preference[b] = 0
          /\ ballots[b][1] \notin Range(hopefuls)

\* C17: at every round boundary the vote_count of every candidate that is
\* hopeful or eliminated equals the sum of the cumulative values of the
\* ballots in its bucket.
C17_CountIsBucketSum ==
    pc \in {"count", "returned"} =>
        \A c \in Range(hopefuls) \cup Range(eliminated) :
            vote_count[c] = SumR(value, Range(allocated[c]))

\* A hopeful holds a whole ballot and a ballot received at a fraction.
C17_Witness ==
    /\ pc = "count"
    /\ \E c \in Range(hopefuls) :
          \E b1, b2 \in Range(allocated[c]) :
              /\ value[b1] = R(1)
              /\ RLt(value[b2], R(1))
              /\ current_preference[b2] > 0

\* A measure of what is left to do: it is never negative, and every iteration
\* that does not end the call lowers it.
Variant == 2 * Len(hopefuls) + Len(eliminated)

\* The counts of iterations: the rounds completed are the candidates that
\* left the hopefuls plus the zombie iterations, and the zombie iterations
\* are at most the candidates that were eliminated.
C18_Progress ==
    /\ pc \in {"count", "returned"} =>
          current_round - 1 =
              (Len(candidates) - Len(hopefuls)) + Len(hist.zombie_log)
    /\ Len(hist.zombie_log) + Len(eliminated) = Len(hist.elim_log)
    /\ Len(hist.elim_log) <= Len(candidates)

\* A step of a running call ends the call or completes one iteration.
C18_Step ==
    pc = "count" =>
        \/ pc' # "count"
        \/ /\ Variant' < Variant
           /\ hist'.path \in {"elect", "eliminate"} =>
                 /\ Len(hopefuls') = Len(hopefuls) - 1
                 /\ current_round' = current_round + 1
           /\ hist'.path = "zombie" =>
                 /\ Len(eliminated') = Len(eliminated) - 1
                 /\ hopefuls' = hopefuls

\* C18: count_stv always terminates.  Every iteration of the counting loop
\* removes exactly one candidate from hopefuls and advances the round counter
\* by one, and every zombie iteration removes exactly one candidate from
\* eliminated, so there are at most |candidates| counting rounds followed by
\* at most |eliminated| zombie rounds.
C18_Terminates == []C18_Progress /\ [][C18_Step]_vars

\* A call that returned after using every candidate in the counting loop and
\* then deciding eliminated candidates in the zombie loop.
C18_Witness ==
    /\ pc = "returned"
    /\ hopefuls = <<>>
    /\ Len(hist.zombie_log) >= 2
    /\ current_round - 1 = Len(candidates) + Len(hist.elim_log)

\* The distinct candidates named on the ballots.
OnBallots == UNION {Range(ballots[b]) : b \in 1..Len(ballots)}

\* C19: with an empty constituency mapping and at least `seats` distinct
\* candidates on the ballots, every round keeps the hopefuls at least as many
\* as the unfilled seats, the count ends with exactly `seats` elected
\* candidates, and the zombie phase executes no iteration.
C19_SeatsFilled ==
    (DOMAIN constituencies = {} /\ Cardinality(OnBallots) >= seats) =>
        /\ Len(hopefuls) >= seats - Len(elected)
        /\ pc = "returned" => Len(elected) = seats
        /\ hist.path # "zombie"
        /\ hist.zombie_log = <<>>

\* A returned count that eliminated candidates and filled the seat with a
\* candidate below the threshold.
C19_Witness ==
    /\ DOMAIN constituencies = {}
    /\ Cardinality(OnBallots) >= seats
    /\ pc = "returned"
    /\ Len(elected) = seats
    /\ Len(hist.elim_log) >= 2
    /\ RLt(elected[Len(elected)][3], threshold)

\* The hopefuls that shared the extremal count of the last counting round:
\* the top count on the election path, the bottom count on the elimination
\* path.
Extremal ==
    IF hist.path = "elect"
    THEN {c \in HopefulsBefore : IsTop(c)}
    ELSE {c \in HopefulsBefore : IsBottom(c)}

IsSuffix(s, u) ==
    Len(s) <= Len(u) /\ SubSeq(u, Len(u) - Len(s) + 1, Len(u)) = s

====
